---- MODULE Spec2Model ----
(***************************************************************************)
(* The no-CVR sample-size search of hybrid-audit-example-2.ipynb (cell 5)  *)
(* and the risk allocation of cell 2.                                      *)
(*                                                                         *)
(*   np.random.seed(292018)                                                *)
(*   pop = np.array([0]*52500 + [1]*42500 + [np.nan]*5000)                 *)
(*   for n in range(20, 10000, 20):                                        *)
(*       sample = np.random.choice(pop, n)                                 *)
(*       pval = trihypergeometric_optim(sample, popsize=N2, null_margin=c) *)
(*       print("n=", n, ", pvalue=", pval)                                 *)
(*       if pval < alpha2:                                                 *)
(*           break                                                         *)
(*                                                                         *)
(* The cell is executed twice in one kernel, one execution after the other *)
(* (run 1, then run 2), over the same population and with the one global   *)
(* generator of np.random, so that statements relating two runs            *)
(* (reproducibility under the seed, monotonicity in the threshold) are     *)
(* statements about one behaviour.  Probabilities are integers scaled by   *)
(* Scale (0.0404 is 404).  A population and a sample are triples of counts *)
(* <<zeros, ones, nans>>.                                                  *)
(***************************************************************************)
EXTENDS Integers, Sequences, FiniteSets, TLC

\* pop     the population, as counts <<zeros, ones, nans>>
\* alpha   the threshold of each run (alpha2 in the notebook)
\* pc      where each run is: "start", "loop", "done", or "error" (exception)
\* n, sample, pval   the loop's variables, as each run leaves them (n = 0 and
\*         pval = -1: not yet assigned)
\* rng     the state of np.random's global generator
\* out     the lines each run printed: <<n, pvalue>>
\* hist    the generator's state after each iteration of each run
\* oracle  the p-values trihypergeometric_optim has returned, by sample
VARIABLES pop, alpha, pc, n, rng, sample, pval, out, hist, oracle

vars == <<pop, alpha, pc, n, rng, sample, pval, out, hist, oracle>>

Runs == {1, 2}

-----------------------------------------------------------------------------
(* Constants of the notebook *)

Scale == 100 * 100

\* alpha1 = 0.01
Alpha1 == 100
\* alpha2 = 0.0404
Alpha2 == 404
\* "at most alpha = 5%"
AlphaTotal == 500
\* range(20, 10000, 20): first value and increment
Start == 20
Step == 20
\* np.random.seed(292018)
SeedValue == 292018

(* Bounds of the model *)

\* the stop value of the range (10000 in the notebook)
MaxN == 100
\* the generator's state when the kernel starts is one of 0..MaxEntropy
MaxEntropy == 1

\* the notebook's population, a population of 40 ballots of the same
\* composition, and the empty population
Populations == { <<52500, 42500, 5000>>, <<21, 17, 2>>, <<0, 0, 0>> }

\* thresholds the loop is run with: the notebook's alpha2, a looser one, and
\* the two ends of [0, 1]
Alphas == { 0, Alpha2, AlphaTotal, Scale }

\* p-values the oracle may return, all in [0, 1]
PVals == { 14, Alpha2, 450, Scale }

-----------------------------------------------------------------------------
(* Risk allocation (cell 2 and the markdown above it) *)

\* a1 + a2: the union bound, which the allocation 1% / 4.04% exceeds
TotalRiskUnion(a1, a2) == (a1 + a2) * Scale

\* 1 - (1 - a1)(1 - a2), scaled by Scale * Scale
TotalRisk(a1, a2) == Scale * Scale - (Scale - a1) * (Scale - a2)

-----------------------------------------------------------------------------
(* The pseudo-random generator: a deterministic function of its state *)

RngMod == 2 ^ 20

NextRng(s) == (1021 * s + 4321) % RngMod

\* seeding that leaves the generator's state as it was
seedNoop(s, r) == r

\* np.random.seed(s): the state after seeding depends on s alone
seed(s, r) == s % RngMod

PopSize(p) == p[1] + p[2] + p[3]

\* pop[i] of [0]*p[1] + [1]*p[2] + [nan]*p[3]: 1, 2, 3 for 0, 1, nan
Ballot(p, i) == IF i < p[1] THEN 1 ELSE IF i < p[1] + p[2] THEN 2 ELSE 3

\* one draw: the generator advances and its new state indexes the population
draw(p, s) ==
    LET s1 == NextRng(s)
        b  == Ballot(p, s1 % PopSize(p))
    IN  [sample |-> [i \in 1..3 |-> IF i = b THEN 1 ELSE 0], rng |-> s1]

\* the draws a, then the draws b made from the state a left
after(a, b) ==
    [sample |-> [i \in 1..3 |-> a.sample[i] + b.sample[i]], rng |-> b.rng]

RECURSIVE choice(_, _, _)
\* np.random.choice(p, k): k draws with replacement (replace=True is the
\* default), one after the other; the result is the counts of the values
\* drawn and the generator's state after the last draw.  The k draws are the
\* first k \div 2 of them followed by the rest.
choice(p, k, s) ==
    IF k = 0 THEN [sample |-> <<0, 0, 0>>, rng |-> s]
    ELSE IF k = 1 THEN draw(p, s)
    ELSE CHOOSE d \in UNION { { after(a, b) : b \in {choice(p, k - (k \div 2), a.rng)} }
                               : a \in {choice(p, k \div 2, s)} } : TRUE

-----------------------------------------------------------------------------
(* The loop *)

\* a range that never advances
NextNStuck(k) == k

\* a range whose values double instead of growing by the increment
NextNDouble(k) == IF k = 0 THEN Start ELSE 2 * k

\* the next value of range(Start, MaxN, Step) after k (0: not started)
NextN(k) == IF k = 0 THEN Start ELSE k + Step

\* a range that includes its stop value
RangeHasInclusive(k) == k <= MaxN

\* range(Start, MaxN, Step) yields k: the stop value is excluded
RangeHas(k) == k < MaxN

\* a test that also breaks on equality
BelowOrEqual(p, a) == p <= a

\* if pval < alpha2
Below(p, a) == p < a

\* trihypergeometric_optim(sample, ...): a deterministic function of the
\* sample, arbitrary otherwise; its value at a sample is fixed when the
\* sample is first seen
OracleValues(s) == IF s \in DOMAIN oracle THEN {oracle[s]} ELSE PVals

Terminal(r) == pc[r] \in {"done", "error"}

\* run 2 is a second execution of the cell, after run 1 has ended
MayRun(r) == r = 1 \/ Terminal(1)

Init ==
    /\ pop \in Populations
    /\ alpha \in [Runs -> Alphas]
    /\ pc = [r \in Runs |-> "start"]
    /\ n = [r \in Runs |-> 0]
    /\ rng \in 0..MaxEntropy
    /\ sample = [r \in Runs |-> <<0, 0, 0>>]
    /\ pval = [r \in Runs |-> -1]
    /\ out = [r \in Runs |-> <<>>]
    /\ hist = [r \in Runs |-> <<>>]
    /\ oracle = <<>>

\* np.random.seed(292018); pop = ...; c = ...
Seed(r) ==
    /\ pc[r] = "start"
    /\ MayRun(r)
    /\ rng' = seed(SeedValue, rng)
    /\ pc' = [pc EXCEPT ![r] = "loop"]
    /\ UNCHANGED <<pop, alpha, n, sample, pval, out, hist, oracle>>

\* the range is used up: the for statement ends, n keeps its last value
Exhaust(r) ==
    /\ pc[r] = "loop"
    /\ ~RangeHas(NextN(n[r]))
    /\ pc' = [pc EXCEPT ![r] = "done"]
    /\ UNCHANGED <<pop, alpha, n, rng, sample, pval, out, hist, oracle>>

\* np.random.choice raises ValueError on an empty population
Raise(r) ==
    /\ pc[r] = "loop"
    /\ RangeHas(NextN(n[r]))
    /\ PopSize(pop) = 0
    /\ n' = [n EXCEPT ![r] = NextN(n[r])]
    /\ pc' = [pc EXCEPT ![r] = "error"]
    /\ UNCHANGED <<pop, alpha, rng, sample, pval, out, hist, oracle>>

\* one iteration: draw, ask the oracle, print, test
Body(r) ==
    /\ pc[r] = "loop"
    /\ RangeHas(NextN(n[r]))
    /\ PopSize(pop) > 0
    /\ \E k \in {NextN(n[r])} : \E d \in {choice(pop, k, rng)} :
           \E p \in OracleValues(d.sample) :
             /\ n' = [n EXCEPT ![r] = k]
             /\ rng' = d.rng
             /\ sample' = [sample EXCEPT ![r] = d.sample]
             /\ oracle' = IF d.sample \in DOMAIN oracle THEN oracle
                          ELSE oracle @@ (d.sample :> p)
             /\ pval' = [pval EXCEPT ![r] = p]
             /\ out' = [out EXCEPT ![r] = Append(@, <<k, p>>)]
             /\ hist' = [hist EXCEPT ![r] = Append(@, d.rng)]
             /\ pc' = [pc EXCEPT ![r] = IF Below(p, alpha[r]) THEN "done" ELSE "loop"]
    /\ UNCHANGED <<pop, alpha>>

Next ==
    \E r \in Runs :
        \/ Seed(r)
        \/ Exhaust(r)
        \/ Raise(r)
        \/ Body(r)

Spec == Init /\ [][Next]_vars

\* a cell that has started runs to its end: the kernel executes it without
\* suspension
FairSpec == Spec /\ WF_vars(Next)

-----------------------------------------------------------------------------
(* What a run printed and how it ended *)

Last(s) == s[Len(s)]

\* the run left the loop through break: its last p-value is below its threshold
Stopped(r) == pc[r] = "done" /\ Len(out[r]) > 0 /\ Last(out[r])[2] < alpha[r]

\* the run left the loop because the range was used up
RanOut(r) == pc[r] = "done" /\ (Len(out[r]) = 0 \/ Last(out[r])[2] >= alpha[r])

\* what is left of a run when it has ended, its inputs aside
Outcome(r) == <<pc[r], n[r], sample[r], pval[r], out[r]>>

Degenerate(r) == PopSize(pop) = 0 \/ alpha[r] <= 0 \/ alpha[r] >= Scale

-----------------------------------------------------------------------------
(* C1: the search stops at the first sample size whose p-value is strictly  *)
(* below alpha: every size printed before the last one had p-value >=      *)
(* alpha, a p-value below alpha ends the run at that size with that        *)
(* p-value, nothing is tried after it, and a run that ends before the      *)
(* range is used up ended on a p-value below alpha.                        *)
C1_StopsAtFirstBelow ==
    \A r \in Runs :
        /\ \A i \in 1..(Len(out[r]) - 1) : out[r][i][2] >= alpha[r]
        /\ (Len(out[r]) > 0 /\ Last(out[r])[2] < alpha[r])
              => (pc[r] = "done" /\ n[r] = Last(out[r])[1] /\ pval[r] = Last(out[r])[2])
        /\ (pc[r] = "done" /\ n[r] + Step < MaxN)
              => (Len(out[r]) > 0 /\ Last(out[r])[2] < alpha[r])

C1_Witness ==
    \E r \in Runs : Stopped(r) /\ Len(out[r]) >= 3 /\ alpha[r] = Alpha2

(* C2: the sample size is a positive multiple of the step, starts at 20,   *)
(* grows by exactly 20 from one iteration to the next and never exceeds    *)
(* the ceiling.                                                            *)
C2_SampleSizes ==
    \A r \in Runs :
        /\ n[r] # 0 => (n[r] % Step = 0 /\ n[r] >= Start /\ n[r] <= MaxN)
        /\ \A i \in 1..Len(out[r]) : out[r][i][1] = Start + (i - 1) * Step
        /\ Len(out[r]) > 0 => n[r] = Last(out[r])[1]

C2_Witness ==
    \E r \in Runs : pc[r] = "loop" /\ Len(out[r]) >= 3 /\ n[r] = Start + 2 * Step

(* C3 as stated: a run that used up the range has tried every multiple of  *)
(* the step up to and including the ceiling, each with p-value >= alpha    *)
(* (stated for runs with a non-empty population and alpha in (0, 1)).      *)
C3_CeilingIncluded ==
    \A r \in Runs :
        (RanOut(r) /\ ~Degenerate(r)) =>
            \A k \in Start..MaxN :
                k % Step = 0 =>
                    \E i \in 1..Len(out[r]) : out[r][i][1] = k /\ out[r][i][2] >= alpha[r]

(* C3 amended: a run that used up the range has tried every multiple of    *)
(* the step below the ceiling, each with p-value >= alpha, and no run ever *)
(* tries the ceiling itself or a size above it.                            *)
C3_CeilingExcluded ==
    \A r \in Runs :
        /\ \A i \in 1..Len(out[r]) : out[r][i][1] < MaxN
        /\ RanOut(r) =>
              \A k \in Start..(MaxN - 1) :
                  k % Step = 0 =>
                      \E i \in 1..Len(out[r]) : out[r][i][1] = k /\ out[r][i][2] >= alpha[r]

C3_Witness ==
    \E r \in Runs :
        RanOut(r) /\ alpha[r] = Alpha2 /\ Len(out[r]) > 0 /\ n[r] + Step >= MaxN

C7_Reproducible ==
    alpha[1] = alpha[2] =>
        /\ Len(out[2]) <= Len(out[1])
        /\ \A i \in 1..Len(out[2]) : out[2][i] = out[1][i] /\ hist[2][i] = hist[1][i]
        /\ Terminal(2) =>
              /\ out[2] = out[1]
              /\ hist[2] = hist[1]
              /\ Outcome(2) = Outcome(1)

C7_Witness ==
    /\ alpha[1] = alpha[2]
    /\ Terminal(1) /\ Terminal(2)
    /\ Len(out[2]) >= 2

(* C8: of two runs that differ only in alpha, when the one with the        *)
(* stricter alpha stops successfully the one with the looser alpha stops   *)
(* successfully too, at a size that is not larger.                         *)
C8_MonotoneInAlpha ==
    \A s, l \in Runs :
        (alpha[s] <= alpha[l] /\ Stopped(s) /\ Terminal(l))
            => (Stopped(l) /\ n[l] <= n[s])

C8_Witness ==
    \E s, l \in Runs :
        /\ alpha[s] < alpha[l]
        /\ Stopped(s) /\ Stopped(l)
        /\ n[l] < n[s]

(* C9: with alpha1 = 1% and alpha2 = 4.04% the total risk                  *)
(* 1 - (1 - alpha1)(1 - alpha2) is at most 5%.                             *)
C9_RiskAllocation ==
    \A r \in Runs :
        (pc[r] # "start" /\ alpha[r] = Alpha2)
            => TotalRisk(Alpha1, alpha[r]) <= AlphaTotal * Scale

C9_Witness ==
    \E r \in Runs : pc[r] = "done" /\ alpha[r] = Alpha2 /\ Len(out[r]) > 0

(* C10: the search terminates: a run over a population it can draw from    *)
(* reaches the end of the loop (success or exhausted) after at most        *)
(* max_n/step iterations, and no step is taken by a run that has ended.    *)
C10_Terminates ==
    /\ [](\A r \in Runs : Len(out[r]) <= MaxN \div Step)
    /\ (PopSize(pop) > 0) => <>(\A r \in Runs : Stopped(r) \/ RanOut(r))
    /\ [][\A r \in Runs : Terminal(r) =>
            /\ pc'[r] = pc[r] /\ n'[r] = n[r] /\ out'[r] = out[r]
            /\ hist'[r] = hist[r] /\ pval'[r] = pval[r] /\ sample'[r] = sample[r]]_vars

C10_Witness ==
    /\ PopSize(pop) > 0
    /\ \E r \in Runs : Stopped(r)
    /\ \E r \in Runs : RanOut(r) /\ Len(out[r]) = (MaxN - 1) \div Step

====
